---- MODULE Spec2Model ----
(***************************************************************************)
(* Habit tracker (src/habit-tracker/src/App.jsx): several browser clients  *)
(* of one Firestore project.  The store holds one document per user name,  *)
(* the roster document and the leaderboard document.  Every client keeps   *)
(* the snapshot it last received (userDoc) and computes each write from    *)
(* that snapshot.  An async handler is a task whose steps are its store    *)
(* requests; a store request takes effect in the step that issues it.      *)
(***************************************************************************)
EXTENDS Integers, Sequences, FiniteSets, Bags, TLC

(* ------------------------------ bounds -------------------------------- *)
SeedDays == 9
RunDays == 1
MaxTasks == 2
MaxCalls == 3

\* The browsers that exist, and the ones that act in the specifications of
\* one or two users.
Clients == {1, 2, 3, 4, 5, 6}
Devices == {1, 2}
Names == {"ann", "bob", "cy", "dee", "eve", "fay"}
Codes == {"1234", "0000"}
\* The day the run begins, the last day a clock reaches, the day daylight
\* saving starts.
Day0 == SeedDays + 1
MaxDay == Day0 + RunDays
DstStart == Day0 + 1

(* --------------------------- program constants ------------------------ *)
addPoints == 10
MaxHabits == 15
TopN == 5
RosterCap == 50
XpPerLevel == 100
NoDate == 0

VARIABLES
  users,        \* collection "users": name -> document or NoDoc
  roster,       \* document meta/roster
  leaderboard,  \* document leaderboard/global
  userDoc,      \* per client: React state userDoc (Null or snapshot with name)
  subs,         \* per client: names with a live onSnapshot listener
  pending,      \* per client: listeners with an undelivered snapshot
  clock,        \* per client: the day its clock shows
  tasks,        \* bag of suspended async handlers
  nextId,       \* habit ids handed out during the run (crypto.randomUUID is fresh)
  calls,        \* handler invocations that wrote a user document, so far
  ev            \* the last handler step taken (history, for stating claims)

vars == <<users, roster, leaderboard, userDoc, subs, pending, clock, tasks, nextId, calls, ev>>
store == <<users, roster, leaderboard>>

(* ------------------------------ utilities ----------------------------- *)
\* new Date(ymd + "T00:00:00") in hours: local midnight, one hour earlier
\* in UTC terms once daylight saving has started.
LocalMidnight(d) == d * 24 - (IF d >= DstStart THEN 1 ELSE 0)

\* Math.round(x / 24) for an integer x: floor(x / 24 + 1/2).
RoundDiv24(x) == (2 * x + 24) \div 48

\* Mutant of MillisToDays: Math.floor in place of Math.round.
FloorDiv24(x) == x \div 24

\* Math.round((b - a) / (1000 * 60 * 60 * 24)), the difference taken in hours.
MillisToDays(x) == RoundDiv24(x)

daysBetween(from, to) == MillisToDays(LocalMidnight(to) - LocalMidnight(from))

todayYMD(c) == clock[c]

sha256(text) ==
  CASE text = "1234" -> "03ac6742"
    [] text = "0000" -> "9af15b33"
    [] OTHER -> "e3b0c442"

Max(a, b) == IF a >= b THEN a ELSE b

(* ------------------------------ documents ----------------------------- *)
NoDoc == [exists |-> FALSE]
Null == [exists |-> FALSE]

NewUserPayload(ch) ==
  [exists |-> TRUE, codeHash |-> ch, points |-> 0, xp |-> 0, level |-> 1,
   overallStreak |-> 0, lastActiveDate |-> NoDate, habits |-> <<>>]

\* setUserDoc({ name, ...s.data() })
UserView(name, d) ==
  [exists |-> TRUE, name |-> name, codeHash |-> d.codeHash, points |-> d.points,
   xp |-> d.xp, level |-> d.level, overallStreak |-> d.overallStreak,
   lastActiveDate |-> d.lastActiveDate, habits |-> d.habits]

RosterNames == IF roster.exists THEN roster.names ELSE <<>>

Players == IF leaderboard.exists THEN leaderboard.players ELSE <<>>

Includes(seq, x) == \E i \in 1..Len(seq) : seq[i] = x

\* Mutant of Take: the last n elements are kept.
TakeLast(seq, n) == IF Len(seq) <= n THEN seq ELSE SubSeq(seq, Len(seq) - n + 1, Len(seq))

\* slice(0, n)
Take(seq, n) == IF Len(seq) <= n THEN seq ELSE SubSeq(seq, 1, n)

(* ------------------------------- tasks -------------------------------- *)
NoMe == [name |-> "", points |-> 0, streak |-> 0, level |-> 0]

EnterTask(c, pc, name, ch, names) ==
  [c |-> c, pc |-> pc, name |-> name, ch |-> ch, names |-> names,
   me |-> NoMe, players |-> <<>>]

BoardTask(c, pc, me, players) ==
  [c |-> c, pc |-> pc, name |-> me.name, ch |-> "", names |-> <<>>,
   me |-> me, players |-> players]

Spawn(t) == tasks (+) SetToBag({t})

Resume(t, u) == (tasks (-) SetToBag({t})) (+) SetToBag({u})

Finish(t) == tasks (-) SetToBag({t})

InFlight == BagToSet(tasks)

\* The step just taken: which handler ran, for which client and user, the
\* snapshot (or habit, or leaderboard entry) it computed from (snap), the
\* stored document it overwrote or the leaderboard it had read (before),
\* the date it used and what it returned (out).
Step(kind, c, name, id, snap, before, today) ==
  [kind |-> kind, c |-> c, name |-> name, id |-> id, snap |-> snap,
   before |-> before, today |-> today, out |-> FALSE]

Event(kind, c, name) == Step(kind, c, name, 0, Null, NoDoc, NoDate)

\* A write to users/<name> notifies every listener of that document.
Notify(name, changed) ==
  [c \in Clients |->
     IF changed /\ name \in subs[c] THEN pending[c] \cup {name} ELSE pending[c]]

(* ------------------------------ handleEnter --------------------------- *)
\* The Enter button is rendered only while userDoc is null.
handleEnter(c, selectedName, code) ==
  /\ ~userDoc[c].exists
  /\ IF selectedName = "" \/ code = ""
       THEN /\ ev' = Event("InvalidInput", c, selectedName)
            /\ UNCHANGED tasks
       ELSE /\ BagCardinality(tasks) < MaxTasks
            /\ tasks' = Spawn(EnterTask(c, "getUser", selectedName, sha256(code), <<>>))
            /\ ev' = Event("enter", c, selectedName)
  /\ UNCHANGED <<store, userDoc, subs, pending, clock, nextId, calls>>

subscribeToUser(c, name) ==
  /\ subs' = [subs EXCEPT ![c] = @ \cup {name}]
  /\ pending' = [pending EXCEPT ![c] = @ \cup {name}]

\* Mutant of EnterGetUser: the listener is started before the code is checked.
EnterGetUserEager(t) ==
  /\ t \in InFlight /\ t.pc = "getUser"
  /\ IF users[t.name].exists
       THEN /\ tasks' = Finish(t)
            /\ subscribeToUser(t.c, t.name)
            /\ ev' = Event(IF users[t.name].codeHash # t.ch
                             THEN "InvalidCredential" ELSE "entered", t.c, t.name)
       ELSE /\ tasks' = Resume(t, [t EXCEPT !.pc = "setUser"])
            /\ ev' = Event("notFound", t.c, t.name)
            /\ UNCHANGED <<subs, pending>>
  /\ UNCHANGED <<store, userDoc, clock, nextId, calls>>

\* const snap = await getDoc(ref), and the branch on snap.exists().
EnterGetUser(t) ==
  /\ t \in InFlight /\ t.pc = "getUser"
  /\ IF users[t.name].exists
       THEN /\ tasks' = Finish(t)
            /\ IF users[t.name].codeHash # t.ch
                 THEN /\ ev' = Event("InvalidCredential", t.c, t.name)
                      /\ UNCHANGED <<subs, pending>>
                 ELSE /\ ev' = Event("entered", t.c, t.name)
                      /\ subscribeToUser(t.c, t.name)
       ELSE /\ tasks' = Resume(t, [t EXCEPT !.pc = "setUser"])
            /\ ev' = Event("notFound", t.c, t.name)
            /\ UNCHANGED <<subs, pending>>
  /\ UNCHANGED <<store, userDoc, clock, nextId, calls>>

\* await setDoc(ref, payload): replaces the document.
EnterSetUser(t) ==
  /\ t \in InFlight /\ t.pc = "setUser"
  /\ users' = [users EXCEPT ![t.name] = NewUserPayload(t.ch)]
  /\ pending' = Notify(t.name, users'[t.name] # users[t.name])
  /\ tasks' = Resume(t, [t EXCEPT !.pc = "getRoster"])
  /\ ev' = Event("created", t.c, t.name)
  /\ UNCHANGED <<roster, leaderboard, userDoc, subs, clock, nextId, calls>>

\* const curr = await getDoc(rosterRef)
EnterGetRoster(t) ==
  /\ t \in InFlight /\ t.pc = "getRoster"
  /\ tasks' = Resume(t, [t EXCEPT !.pc = "setRoster", !.names = RosterNames])
  /\ ev' = Event("rosterRead", t.c, t.name)
  /\ UNCHANGED <<store, userDoc, subs, pending, clock, nextId, calls>>

\* if (!names.includes(selectedName)) await setDoc(rosterRef, ...); subscribe.
EnterSetRoster(t) ==
  /\ t \in InFlight /\ t.pc = "setRoster"
  /\ roster' = IF Includes(t.names, t.name)
                 THEN roster
                 ELSE [exists |-> TRUE, names |-> Take(Append(t.names, t.name), RosterCap)]
  /\ subscribeToUser(t.c, t.name)
  /\ tasks' = Finish(t)
  /\ ev' = Event("entered", t.c, t.name)
  /\ UNCHANGED <<users, leaderboard, userDoc, clock, nextId, calls>>

(* --------------------------- store notifications ---------------------- *)
\* onSnapshot(uref, (s) => { if (s.exists()) setUserDoc({ name, ...s.data() }) })
Snapshot(c, name) ==
  /\ name \in pending[c]
  /\ pending' = [pending EXCEPT ![c] = @ \ {name}]
  /\ userDoc' = IF users[name].exists
                  THEN [userDoc EXCEPT ![c] = UserView(name, users[name])]
                  ELSE userDoc
  /\ ev' = Event("snapshot", c, name)
  /\ UNCHANGED <<store, subs, clock, tasks, nextId, calls>>

\* onClick={() => setUserDoc(null)}
SwitchUser(c) ==
  /\ userDoc[c].exists
  /\ userDoc' = [userDoc EXCEPT ![c] = Null]
  /\ ev' = Event("switch", c, userDoc[c].name)
  /\ UNCHANGED <<store, subs, pending, clock, tasks, nextId, calls>>

\* Midnight passes on a client's clock.
Tick(c) ==
  /\ clock[c] < MaxDay
  /\ clock' = [clock EXCEPT ![c] = @ + 1]
  /\ ev' = Event("tick", c, "")
  /\ UNCHANGED <<store, userDoc, subs, pending, tasks, nextId, calls>>

(* ----------------------------- derived helpers ----------------------- *)
levelFromXP(xp) == (xp \div XpPerLevel) + 1

\* h.intervalDays || 1
OrOne(n) == IF n = 0 THEN 1 ELSE n

effectiveInterval(h) ==
  IF h.freq = "daily" THEN 1
  ELSE IF h.freq = "every2days" THEN 2
  ELSE Max(1, OrOne(h.intervalDays))

isHabitDue(h, date) ==
  IF h.lastDoneDate = NoDate
    THEN TRUE
    ELSE daysBetween(h.lastDoneDate, date) >= effectiveInterval(h)

HabitIds(list) == {list[i].id : i \in 1..Len(list)}

HabitOf(list, id) == list[CHOOSE i \in 1..Len(list) : list[i].id = id]

\* The habits a client renders, each with its Delete and Complete button.
Shown(c) == IF userDoc[c].exists THEN HabitIds(userDoc[c].habits) ELSE {}

\* A write to users/<name> by updateDoc: the named fields replace the stored
\* ones, the others stay.
WriteUser(name, doc) ==
  /\ users' = [users EXCEPT ![name] = doc]
  /\ pending' = Notify(name, doc # users[name])

(* ------------------------------ addHabit ------------------------------ *)
\* (newHabit.title || "Untitled").trim()
Trim(s) == IF s = "   " THEN "" ELSE s

HabitTitle(raw) == Trim(IF raw = "" THEN "Untitled" ELSE raw)

NewIntervalDays(freq, n) ==
  IF freq = "custom" THEN Max(1, OrOne(n))
  ELSE IF freq = "every2days" THEN 2 ELSE 1

NewHabit(id, newHabit) ==
  [id |-> id, title |-> HabitTitle(newHabit.title), freq |-> newHabit.freq,
   intervalDays |-> NewIntervalDays(newHabit.freq, newHabit.intervalDays),
   lastDoneDate |-> NoDate, totalCompletions |-> 0]

\* Mutant of AtCapacity: > in place of >=.
AtCapacityLate(list) == Len(list) > MaxHabits

\* list.length >= 15
AtCapacity(list) == Len(list) >= MaxHabits

addHabit(c, newHabit) ==
  /\ userDoc[c].exists
  /\ LET u == userDoc[c]
         list == u.habits
     IN IF AtCapacity(list)
          THEN /\ ev' = Step("CapacityExceeded", c, u.name, 0, u, users[u.name], NoDate)
               /\ UNCHANGED <<users, pending, nextId, calls>>
          ELSE IF HabitTitle(newHabit.title) = ""
          THEN /\ ev' = Step("InvalidTitle", c, u.name, 0, u, users[u.name], NoDate)
               /\ UNCHANGED <<users, pending, nextId, calls>>
          ELSE /\ calls < MaxCalls
               /\ calls' = calls + 1
               /\ nextId' = nextId + 1
               /\ WriteUser(u.name, [users[u.name] EXCEPT
                     !.habits = Append(list, NewHabit(nextId + 1, newHabit))])
               /\ ev' = Step("added", c, u.name, nextId + 1, u, users[u.name], NoDate)
  /\ UNCHANGED <<roster, leaderboard, userDoc, subs, clock, tasks>>

(* ----------------------------- deleteHabit ---------------------------- *)
RECURSIVE WithoutId(_, _)
WithoutId(list, id) ==
  IF list = <<>> THEN <<>>
  ELSE IF Head(list).id = id THEN WithoutId(Tail(list), id)
  ELSE <<Head(list)>> \o WithoutId(Tail(list), id)

\* The Delete button is rendered once per habit of the snapshot.
deleteHabit(c, id) ==
  /\ userDoc[c].exists
  /\ id \in HabitIds(userDoc[c].habits)
  /\ calls < MaxCalls
  /\ calls' = calls + 1
  /\ LET u == userDoc[c]
     IN /\ WriteUser(u.name, [users[u.name] EXCEPT !.habits = WithoutId(u.habits, id)])
        /\ ev' = Step("deleted", c, u.name, id, u, users[u.name], NoDate)
  /\ UNCHANGED <<roster, leaderboard, userDoc, subs, clock, tasks, nextId>>

(* ---------------------------- completeHabit --------------------------- *)
\* Mutant of MarkDone: a habit that is not due is left as it is.
MarkDoneIfDue(list, id, today) ==
  [i \in 1..Len(list) |->
     IF list[i].id = id /\ isHabitDue(list[i], today)
       THEN [list[i] EXCEPT !.lastDoneDate = today,
                            !.totalCompletions = @ + 1]
       ELSE list[i]]

MarkDone(list, id, today) ==
  [i \in 1..Len(list) |->
     IF list[i].id = id
       THEN [list[i] EXCEPT !.lastDoneDate = today,
                            !.totalCompletions = @ + 1]
       ELSE list[i]]

\* Mutant of NewStreak: any later day extends the streak.
NewStreakNoReset(streak, last, today) ==
  IF last = today THEN streak
  ELSE IF last = NoDate THEN 1
  ELSE IF daysBetween(last, today) >= 1 THEN streak + 1 ELSE 1

NewStreak(streak, last, today) ==
  IF last = today THEN streak
  ELSE IF last = NoDate THEN 1
  ELSE IF daysBetween(last, today) = 1 THEN streak + 1 ELSE 1

\* Mutant of Completed: the level is taken from the xp before the reward.
CompletedStaleLevel(u, id, today) ==
  [habits |-> MarkDone(u.habits, id, today),
   points |-> u.points + addPoints,
   xp |-> u.xp + addPoints,
   level |-> levelFromXP(u.xp),
   overallStreak |-> NewStreak(u.overallStreak, u.lastActiveDate, today),
   lastActiveDate |-> today]

\* Mutant of Completed: the reward goes to the points only.
CompletedPointsOnly(u, id, today) ==
  [habits |-> MarkDone(u.habits, id, today),
   points |-> u.points + addPoints,
   xp |-> u.xp,
   level |-> levelFromXP(u.xp),
   overallStreak |-> NewStreak(u.overallStreak, u.lastActiveDate, today),
   lastActiveDate |-> today]

\* The fields completeHabit hands to updateDoc, computed from the snapshot u.
Completed(u, id, today) ==
  [habits |-> MarkDone(u.habits, id, today),
   points |-> u.points + addPoints,
   xp |-> u.xp + addPoints,
   level |-> levelFromXP(u.xp + addPoints),
   overallStreak |-> NewStreak(u.overallStreak, u.lastActiveDate, today),
   lastActiveDate |-> today]

Updated(doc, f) ==
  [doc EXCEPT !.habits = f.habits, !.points = f.points, !.xp = f.xp,
              !.level = f.level, !.overallStreak = f.overallStreak,
              !.lastActiveDate = f.lastActiveDate]

Me(u, f) ==
  [name |-> u.name, points |-> u.points + addPoints,
   streak |-> f.overallStreak, level |-> f.level]

\* Mutant of completeHabit: the leaderboard is read in the step that writes
\* the profile.
completeHabitBoardFirst(c, id) ==
  /\ userDoc[c].exists
  /\ id \in HabitIds(userDoc[c].habits)
  /\ calls < MaxCalls
  /\ BagCardinality(tasks) < MaxTasks
  /\ LET u == userDoc[c]
         today == todayYMD(c)
         f == Completed(u, id, today)
     IN /\ WriteUser(u.name, Updated(users[u.name], f))
        /\ tasks' = Spawn(BoardTask(c, "setBoard", Me(u, f), Players))
        /\ ev' = Step("completed", c, u.name, id, u, users[u.name], today)
  /\ calls' = calls + 1
  /\ UNCHANGED <<roster, leaderboard, userDoc, subs, clock, nextId>>

\* completeHabit up to and including its updateDoc; the leaderboard update
\* is left to the task.
completeHabit(c, id) ==
  /\ userDoc[c].exists
  /\ id \in HabitIds(userDoc[c].habits)
  /\ calls < MaxCalls
  /\ BagCardinality(tasks) < MaxTasks
  /\ LET u == userDoc[c]
         today == todayYMD(c)
         f == Completed(u, id, today)
     IN /\ WriteUser(u.name, Updated(users[u.name], f))
        /\ tasks' = Spawn(BoardTask(c, "getBoard", Me(u, f), <<>>))
        /\ ev' = Step("completed", c, u.name, id, u, users[u.name], today)
  /\ calls' = calls + 1
  /\ UNCHANGED <<roster, leaderboard, userDoc, subs, clock, nextId>>

\* The Complete button is disabled unless the habit is due in the snapshot.
ClickComplete(c, id) ==
  /\ userDoc[c].exists
  /\ id \in HabitIds(userDoc[c].habits)
  /\ isHabitDue(HabitOf(userDoc[c].habits, id), todayYMD(c))
  /\ completeHabit(c, id)

\* const lsnap = await getDoc(lref)
CompleteGetBoard(t) ==
  /\ t \in InFlight /\ t.pc = "getBoard"
  /\ tasks' = Resume(t, [t EXCEPT !.pc = "setBoard", !.players = Players])
  /\ ev' = Event("boardRead", t.c, t.name)
  /\ UNCHANGED <<store, userDoc, subs, pending, clock, nextId, calls>>

\* sort((a, b) => b.points - a.points): stable, descending by points.
InsertDesc(sorted, x) ==
  LET k == Cardinality({i \in 1..Len(sorted) : sorted[i].points >= x.points})
  IN SubSeq(sorted, 1, k) \o <<x>> \o SubSeq(sorted, k + 1, Len(sorted))

RECURSIVE SortDesc(_)
SortDesc(seq) ==
  IF seq = <<>> THEN <<>>
  ELSE InsertDesc(SortDesc(SubSeq(seq, 1, Len(seq) - 1)), seq[Len(seq)])

WithoutName(players, name) == SelectSeq(players, LAMBDA p : p.name # name)

\* Mutant of Reconcile: the player's previous entry is not removed.
ReconcileKeepsOld(players, me) ==
  Take(SortDesc(Append(players, me)), TopN)

\* Mutant of Reconcile: the candidate is left out when the list is full.
ReconcileIfRoom(players, me) ==
  IF Len(WithoutName(players, me.name)) >= TopN
    THEN WithoutName(players, me.name)
    ELSE Take(SortDesc(Append(WithoutName(players, me.name), me)), TopN)

\* players.filter(...).concat(me).sort(...).slice(0, 5)
Reconcile(players, me) ==
  Take(SortDesc(Append(WithoutName(players, me.name), me)), TopN)

\* Mutant of CompleteSetBoard: the list is reconciled with the stored
\* leaderboard at the time of the write.
CompleteSetBoardAtomic(t) ==
  /\ t \in InFlight /\ t.pc = "setBoard"
  /\ leaderboard' = [exists |-> TRUE, players |-> Reconcile(Players, t.me)]
  /\ tasks' = Finish(t)
  /\ ev' = Step("boardWritten", t.c, t.name, 0, t.me,
              [exists |-> TRUE, players |-> t.players], NoDate)
  /\ UNCHANGED <<users, roster, userDoc, subs, pending, clock, nextId, calls>>

\* await setDoc(lref, { players })
CompleteSetBoard(t) ==
  /\ t \in InFlight /\ t.pc = "setBoard"
  /\ leaderboard' = [exists |-> TRUE, players |-> Reconcile(t.players, t.me)]
  /\ tasks' = Finish(t)
  /\ ev' = Step("boardWritten", t.c, t.name, 0, t.me,
              [exists |-> TRUE, players |-> t.players], NoDate)
  /\ UNCHANGED <<users, roster, userDoc, subs, pending, clock, nextId, calls>>

\* await getDoc(lref) or await setDoc(lref, ...) rejects: completeHabit has no
\* try/catch, so the call ends there.
BoardFails(t) ==
  /\ t \in InFlight /\ t.pc \in {"getBoard", "setBoard"}
  /\ tasks' = Finish(t)
  /\ ev' = Step("StoreUnavailable", t.c, t.name, 0, t.me,
              [exists |-> TRUE, players |-> t.players], NoDate)
  /\ UNCHANGED <<store, userDoc, subs, pending, clock, nextId, calls>>

(* ------------------------------ specification ------------------------- *)
Init ==
  /\ users = [n \in Names |-> NoDoc]
  /\ roster = NoDoc
  /\ leaderboard = NoDoc
  /\ userDoc = [c \in Clients |-> Null]
  /\ subs = [c \in Clients |-> {}]
  /\ pending = [c \in Clients |-> {}]
  /\ clock = [c \in Clients |-> Day0]
  /\ tasks = EmptyBag
  /\ nextId = 0
  /\ calls = 0
  /\ ev = Event("init", 0, "")

\* What a user types into the Add Habit form.
HabitForms ==
  {[title |-> "", freq |-> "daily", intervalDays |-> 1],
   [title |-> "   ", freq |-> "every2days", intervalDays |-> 1],
   [title |-> "Read", freq |-> "custom", intervalDays |-> 0]}

DefaultForm == [title |-> "", freq |-> "daily", intervalDays |-> 1]

\* Sessions from a new project: two devices enter, leave and enter again
\* under one name, and add habits.
Next ==
  \/ \E c \in Devices, n \in {"ann", ""}, k \in Codes \cup {""} : handleEnter(c, n, k)
  \/ \E t \in InFlight : EnterGetUser(t)
  \/ \E t \in InFlight : EnterSetUser(t)
  \/ \E t \in InFlight : EnterGetRoster(t)
  \/ \E t \in InFlight : EnterSetRoster(t)
  \/ \E c \in Devices, n \in Names : Snapshot(c, n)
  \/ \E c \in Devices : SwitchUser(c)
  \/ \E c \in Devices : addHabit(c, DefaultForm)

Spec == Init /\ [][Next]_vars

(* ------------------- a profile in use: two devices of one user -------- *)
\* Ids of habits added before the run begins.
SeedId(i) == 100 + i

SeedHabits ==
  <<NewHabit(SeedId(1), [title |-> "", freq |-> "daily", intervalDays |-> 1]),
    NewHabit(SeedId(2), [title |-> "Read", freq |-> "custom", intervalDays |-> 3])>>

\* The document of a user who entered with code 1234, added the seed habits
\* and then completed the first of them on each of the k days up to `day`,
\* every time from a current snapshot.
RECURSIVE Practised(_, _, _)
Practised(name, k, day) ==
  IF k = 0
    THEN [NewUserPayload(sha256("1234")) EXCEPT !.habits = SeedHabits]
    ELSE LET d == Practised(name, k - 1, day - 1)
         IN Updated(d, Completed(UserView(name, d), SeedId(1), day))

\* The leaderboard entry the last of those completions wrote.
PractisedEntry(name, k, day) ==
  LET u == UserView(name, Practised(name, k - 1, day - 1))
  IN Me(u, Completed(u, SeedId(1), day))

\* The leaderboard after the users of `order` completed, in that order, on the
\* eve of the run (days[n] is the number of days n has practised).
RECURSIVE BoardOf(_, _)
BoardOf(order, days) ==
  IF order = <<>>
    THEN <<>>
    ELSE LET n == order[Len(order)]
         IN Reconcile(BoardOf(SubSeq(order, 1, Len(order) - 1), days),
                      PractisedEntry(n, days[n], Day0 - 1))

\* The state in which the store holds `docs`, the names of `entered` have
\* been created in that order, `played` have completed in that order, and
\* client c is signed in as who[c] with nothing in flight.
Settled(docs, entered, played, days, who) ==
  /\ users = docs
  /\ roster = IF entered = <<>> THEN NoDoc ELSE [exists |-> TRUE, names |-> entered]
  /\ leaderboard = IF played = <<>> THEN NoDoc
                   ELSE [exists |-> TRUE, players |-> BoardOf(played, days)]
  /\ userDoc = [c \in Clients |->
                  IF who[c] = "" THEN Null ELSE UserView(who[c], docs[who[c]])]
  /\ subs = [c \in Clients |-> IF who[c] = "" THEN {} ELSE {who[c]}]
  /\ pending = [c \in Clients |-> {}]
  /\ clock = [c \in Clients |-> Day0]
  /\ tasks = EmptyBag
  /\ nextId = 0
  /\ calls = 0
  /\ ev = Event("init", 0, "")

\* ann, new or after SeedDays days of practice, signed in on two devices.
InitScore ==
  \E k \in {0, SeedDays} :
    LET days == [n \in Names |-> k]
    IN Settled([n \in Names |-> IF n = "ann" THEN Practised(n, k, Day0 - 1) ELSE NoDoc],
               <<"ann">>,
               IF k = 0 THEN <<>> ELSE <<"ann">>,
               days,
               [c \in Clients |-> IF c \in Devices THEN "ann" ELSE ""])

NextScore ==
  \/ \E c \in Devices : \E id \in Shown(c) : ClickComplete(c, id)
  \/ \E t \in InFlight : CompleteGetBoard(t)
  \/ \E t \in InFlight : CompleteSetBoard(t)
  \/ \E c \in Devices, n \in Names : Snapshot(c, n)
  \/ \E c \in Devices : Tick(c)

SpecScore == InitScore /\ [][NextScore]_vars

\* The engine called directly, without the Complete button's gate.
NextEngine ==
  \/ \E c \in Devices : \E id \in Shown(c) : completeHabit(c, id)
  \/ \E t \in InFlight : CompleteGetBoard(t)
  \/ \E t \in InFlight : CompleteSetBoard(t)
  \/ \E c \in Devices, n \in Names : Snapshot(c, n)
  \/ \E c \in Devices : Tick(c)

SpecEngine == InitScore /\ [][NextEngine]_vars

(* ---------------------- the habit limit: a full list ------------------ *)
\* ann after adding all but two of the habits a list may hold.
FullHabits == [i \in 1..(MaxHabits - 2) |-> NewHabit(SeedId(i), DefaultForm)]

InitCap ==
  Settled([n \in Names |->
             IF n = "ann"
               THEN [NewUserPayload(sha256("1234")) EXCEPT !.habits = FullHabits]
               ELSE NoDoc],
          <<"ann">>, <<>>, [n \in Names |-> 0],
          [c \in Clients |-> IF c \in Devices THEN "ann" ELSE ""])

NextCap ==
  \/ \E c \in Devices, form \in HabitForms : addHabit(c, form)
  \/ \E c \in Devices : \E id \in Shown(c) \cap ({SeedId(1)} \cup (1..MaxCalls)) :
       deleteHabit(c, id)
  \/ \E c \in Devices, n \in Names : Snapshot(c, n)

SpecCap == InitCap /\ [][NextCap]_vars

(* ---------------------- the leaderboard: six players ------------------ *)
NameOf == <<"ann", "bob", "cy", "dee", "eve", "fay">>

\* Days each player has practised before the run: four are on the board,
\* two have not completed anything yet.
PlayedDays == [n \in Names |->
  CASE n = "ann" -> 4 [] n = "bob" -> 3 [] n = "cy" -> 2 [] n = "dee" -> 1
    [] OTHER -> 0]

InitBoard ==
  Settled([n \in Names |-> Practised(n, PlayedDays[n], Day0 - 1)],
          NameOf, <<"ann", "bob", "cy", "dee">>, PlayedDays,
          [c \in Clients |-> NameOf[c]])

NextBoard ==
  \/ \E c \in Clients : \E id \in Shown(c) : ClickComplete(c, id)
  \/ \E t \in InFlight : CompleteGetBoard(t)
  \/ \E t \in InFlight : CompleteSetBoard(t)
  \/ \E c \in Clients, n \in Names : Snapshot(c, n)

SpecBoard == InitBoard /\ [][NextBoard]_vars

(* ---------------------- isHabitDue as a function ---------------------- *)
ProbeDays == (Day0 - 2)..MaxDay

ProbeHabits ==
  [id : {SeedId(1)}, title : {"Read"}, freq : {"daily", "every2days", "custom"},
   intervalDays : -1..3, lastDoneDate : {NoDate} \cup ProbeDays,
   totalCompletions : {1}]

InitDue ==
  \E h \in ProbeHabits, date \in ProbeDays :
    /\ users = [n \in Names |-> NoDoc]
    /\ roster = NoDoc
    /\ leaderboard = NoDoc
    /\ userDoc = [c \in Clients |-> Null]
    /\ subs = [c \in Clients |-> {}]
    /\ pending = [c \in Clients |-> {}]
    /\ clock = [c \in Clients |-> Day0]
    /\ tasks = EmptyBag
    /\ nextId = 0
    /\ calls = 0
    /\ ev = [Event("probe", 0, "") EXCEPT !.snap = h, !.today = date]

\* const due = isHabitDue(h)
Due ==
  /\ ev.kind = "probe"
  /\ ev' = [ev EXCEPT !.kind = "isHabitDue", !.out = isHabitDue(ev.snap, ev.today)]
  /\ UNCHANGED <<store, userDoc, subs, pending, clock, tasks, nextId, calls>>

SpecDue == InitDue /\ [][Due]_vars

(* ---------------------- the reconciler as a function ------------------ *)
ProbePoints == {10, 20, 30, 40, 50, 60}

\* The entry a completion that brought a player to `pts` points wrote.
EntryOf(name, pts) ==
  [name |-> name, points |-> pts, streak |-> 1, level |-> levelFromXP(pts)]

\* The leaderboards the store can hold, up to the naming of the players:
\* the first k names in non-increasing order of points.
ProbeBoards ==
  UNION {{[i \in 1..k |-> EntryOf(NameOf[i], pts[i])] :
            pts \in {f \in [1..k -> ProbePoints] :
                       \A i \in 1..k : \A j \in 1..k : i < j => f[i] >= f[j]}} :
         k \in 0..TopN}

\* One player, on the board or not, whose two completions have written its
\* profile and are about to reconcile the leaderboard with the same entry.
InitReconcile ==
  \E board \in ProbeBoards, n \in Names, pts \in ProbePoints :
    /\ users = [m \in Names |-> NoDoc]
    /\ roster = NoDoc
    /\ leaderboard = IF board = <<>> THEN NoDoc
                     ELSE [exists |-> TRUE, players |-> board]
    /\ userDoc = [c \in Clients |-> Null]
    /\ subs = [c \in Clients |-> {}]
    /\ pending = [c \in Clients |-> {}]
    /\ clock = [c \in Clients |-> Day0]
    /\ tasks = SetToBag({BoardTask(1, "getBoard", EntryOf(n, pts), <<>>)})
                 (+) SetToBag({BoardTask(1, "getBoard", EntryOf(n, pts), <<>>)})
    /\ nextId = 0
    /\ calls = 0
    /\ ev = Event("init", 0, "")

NextReconcile ==
  \/ \E t \in InFlight : CompleteGetBoard(t)
  \/ \E t \in InFlight : CompleteSetBoard(t)

SpecReconcile == InitReconcile /\ [][NextReconcile]_vars

(* ---------------------- the gate: two new names ------------------------ *)
\* The names of the users created before the run, none of whom acts in it.
Earlier(k) == [i \in 1..k |-> ToString(i)]

\* A new project, or one whose roster is one name short of full.
InitGate ==
  \E k \in {0, RosterCap - 1} :
    /\ users = [n \in Names |-> NoDoc]
    /\ roster = IF k = 0 THEN NoDoc ELSE [exists |-> TRUE, names |-> Earlier(k)]
    /\ leaderboard = NoDoc
    /\ userDoc = [c \in Clients |-> Null]
    /\ subs = [c \in Clients |-> {}]
    /\ pending = [c \in Clients |-> {}]
    /\ clock = [c \in Clients |-> Day0]
    /\ tasks = EmptyBag
    /\ nextId = 0
    /\ calls = 0
    /\ ev = Event("init", 0, "")

\* Two devices enter under two names, possibly at the same time.
NextGate ==
  \/ \E c \in Devices, n \in {"ann", "bob"} : handleEnter(c, n, "1234")
  \/ \E t \in InFlight : EnterGetUser(t)
  \/ \E t \in InFlight : EnterSetUser(t)
  \/ \E t \in InFlight : EnterGetRoster(t)
  \/ \E t \in InFlight : EnterSetRoster(t)
  \/ \E c \in Devices, n \in Names : Snapshot(c, n)
  \/ \E c \in Devices : SwitchUser(c)

SpecGate == InitGate /\ [][NextGate]_vars

(* ---------------------- the leaderboard: two new players -------------- *)
\* ann on device 1 and bob on device 2, both new, nobody on the board yet.
InitRace ==
  Settled([n \in Names |-> IF n \in {"ann", "bob"} THEN Practised(n, 0, Day0 - 1)
                                                   ELSE NoDoc],
          <<"ann", "bob">>, <<>>, [n \in Names |-> 0],
          [c \in Clients |-> IF c \in Devices THEN NameOf[c] ELSE ""])

NextRace ==
  \/ \E c \in Devices : \E id \in Shown(c) : ClickComplete(c, id)
  \/ \E t \in InFlight : CompleteGetBoard(t)
  \/ \E t \in InFlight : CompleteSetBoard(t)
  \/ \E c \in Devices, n \in Names : Snapshot(c, n)

SpecRace == InitRace /\ [][NextRace]_vars

\* The same with a store that may refuse a leaderboard request.
NextOutage ==
  \/ \E c \in Devices : \E id \in Shown(c) : ClickComplete(c, id)
  \/ \E t \in InFlight : CompleteGetBoard(t)
  \/ \E t \in InFlight : CompleteSetBoard(t)
  \/ \E t \in InFlight : BoardFails(t)
  \/ \E c \in Devices, n \in Names : Snapshot(c, n)

SpecOutage == InitRace /\ [][NextOutage]_vars

(* -------------------------------- claims ------------------------------ *)
\* C1: the stored leaderboard has at most 5 entries, no name twice, and
\* its entries are in non-increasing order of points.
BoardWellFormed ==
  LET p == Players
  IN /\ Len(p) <= 5
     /\ \A i, j \in 1..Len(p) :
          i < j => /\ p[i].name # p[j].name
                   /\ p[i].points >= p[j].points

\* A sixth player has just written the board and was cut from it.
BoardCutSixth ==
  /\ ev.kind = "boardWritten"
  /\ Len(Players) = 5
  /\ \A i \in 1..Len(Players) : Players[i].name # ev.name
  /\ \E i \in 1..4 : Players[i].points > Players[i + 1].points

\* C2: every stored profile has level = floor(xp / 100) + 1.
LevelMatchesXp ==
  \A n \in Names :
    users[n].exists => users[n].level = (users[n].xp \div 100) + 1

\* A completion has just taken a profile from level 1 to level 2.
LevelRose ==
  /\ ev.kind = "completed"
  /\ ev.before.level = 1
  /\ users[ev.name].level = 2
  /\ users[ev.name].xp = 100

\* C3: no step lowers the stored points or the stored xp of a profile.
PointsNeverDecrease ==
  [][\A n \in Names :
       users[n].exists =>
         /\ users'[n].points >= users[n].points
         /\ users'[n].xp >= users[n].xp]_vars

\* C4: the profile write of a completion raises the stored points and the
\* stored xp by exactly 10 over the values stored just before it.
CompletionAddsTen ==
  ev.kind = "completed" =>
    /\ users[ev.name].points = ev.before.points + 10
    /\ users[ev.name].xp = ev.before.xp + 10

\* C5: no stored habits list is longer than 15; add-habit from a snapshot
\* of 15 is rejected without a write, and from a snapshot of 14 it stores 15.
HabitLimit ==
  /\ \A n \in Names : users[n].exists => Len(users[n].habits) <= 15
  /\ ev.kind \in {"added", "InvalidTitle"} => Len(ev.snap.habits) < 15
  /\ ev.kind = "CapacityExceeded" =>
       /\ Len(ev.snap.habits) >= 15
       /\ users[ev.name] = ev.before
  /\ (ev.kind = "added" /\ Len(ev.snap.habits) = 14) =>
       Len(users[ev.name].habits) = 15

\* add-habit has just been rejected on a full list of 15.
SixteenthRejected ==
  /\ ev.kind = "CapacityExceeded"
  /\ Len(ev.snap.habits) = 15
  /\ Len(users[ev.name].habits) = 15

\* C6: isHabitDue is true without a last-completion date, and otherwise
\* exactly when the days since it reach 1 (daily), 2 (every2days) or
\* max(1, intervalDays) (custom).
DueRule ==
  ev.kind = "isHabitDue" =>
    LET h == ev.snap
        interval == CASE h.freq = "daily" -> 1
                      [] h.freq = "every2days" -> 2
                      [] h.freq = "custom" ->
                           IF h.intervalDays >= 1 THEN h.intervalDays ELSE 1
    IN ev.out = (h.lastDoneDate = NoDate \/ ev.today - h.lastDoneDate >= interval)

\* A custom habit with a stored interval of 0 or less, done yesterday, is due.
DueWithNonPositiveInterval ==
  /\ ev.kind = "isHabitDue"
  /\ ev.snap.freq = "custom"
  /\ ev.snap.intervalDays <= 0
  /\ ev.snap.lastDoneDate # NoDate
  /\ ev.today - ev.snap.lastDoneDate = 1
  /\ ev.out = TRUE

\* C7: a completion writes lastActiveDate = today and the streak the
\* snapshot's (lastActiveDate, overallStreak) and today determine.
StreakRule ==
  ev.kind = "completed" =>
    LET last == ev.snap.lastActiveDate
        prior == ev.snap.overallStreak
        now == users[ev.name]
    IN /\ now.lastActiveDate = ev.today
       /\ last = ev.today => now.overallStreak = prior
       /\ last = NoDate => now.overallStreak = 1
       /\ (last # NoDate /\ ev.today - last = 1) => now.overallStreak = prior + 1
       /\ (last # NoDate /\ ev.today - last >= 2) => now.overallStreak = 1
       /\ (last # NoDate /\ ev.today - last <= 0 /\ last # ev.today) => now.overallStreak = 1

\* A completion on a client whose clock is behind the snapshot's
\* lastActiveDate has reset a streak of 2 or more to 1.
StreakResetByEarlierToday ==
  /\ ev.kind = "completed"
  /\ ev.snap.lastActiveDate > ev.today
  /\ ev.snap.overallStreak >= 2
  /\ users[ev.name].overallStreak = 1

\* C8: once a completion of today is stored, a further completion on the
\* same day leaves the stored overallStreak as it was.
SameDayStreakStable ==
  (/\ ev.kind = "completed"
   /\ ev.before.lastActiveDate = ev.today
   /\ \A c \in Devices : clock[c] = ev.today)
    => users[ev.name].overallStreak = ev.before.overallStreak

\* C9: a completion stores the snapshot's habits with the completed habit
\* stamped today and counted once more, and every other habit as it was.
CompletionMarksHabit ==
  ev.kind = "completed" =>
    LET old == ev.snap.habits
        new == users[ev.name].habits
    IN /\ Len(new) = Len(old)
       /\ \A i \in 1..Len(old) :
            IF old[i].id = ev.id
              THEN /\ new[i].lastDoneDate = ev.today
                   /\ new[i].totalCompletions = old[i].totalCompletions + 1
                   /\ new[i].id = old[i].id
                   /\ new[i].title = old[i].title
                   /\ new[i].freq = old[i].freq
                   /\ new[i].intervalDays = old[i].intervalDays
              ELSE new[i] = old[i]

\* A habit that was not due in the snapshot has been completed.
CompletedWhileNotDue ==
  /\ ev.kind = "completed"
  /\ ~isHabitDue(HabitOf(ev.snap.habits, ev.id), ev.today)
  /\ HabitOf(users[ev.name].habits, ev.id).totalCompletions >= 2

\* C10: a failed enter (empty name or code, or a hash that differs from the
\* stored one) writes no document, starts no listener and does not make
\* the client Active.
FailedEnterChangesNothing ==
  [][ev'.kind \in {"InvalidInput", "InvalidCredential"} =>
       /\ UNCHANGED <<users, roster, leaderboard>>
       /\ UNCHANGED <<subs, pending>>
       /\ UNCHANGED userDoc]_vars

\* An enter with the wrong code for an existing name has just failed.
WrongCodeRefused ==
  /\ ev.kind = "InvalidCredential"
  /\ users[ev.name].exists
  /\ ~userDoc[ev.c].exists
  /\ subs[ev.c] = {}

\* C11: a client that has just switched user is Unauthenticated, and a store
\* notification delivered to it as the very next step, with no enter of that
\* client started or in progress, does not make it Active again.
StaysUnauthenticated ==
  [][/\ ev'.kind = "switch" => ~userDoc'[ev'.c].exists
     /\ (/\ ev.kind = "switch" /\ ev'.kind = "snapshot" /\ ev'.c = ev.c
         /\ \A t \in InFlight : t.c # ev.c)
          => ~userDoc'[ev.c].exists]_vars

\* The entries of a list, as a set.
Entries(seq) == {seq[i] : i \in 1..Len(seq)}

\* C12: reconciling with a candidate whose name is in the list read leaves
\* exactly one entry of that name, and reconciling the written list once
\* more with the same candidate gives the same set of entries.
ReconcileIdempotent ==
  ev.kind = "boardWritten" =>
    LET read == ev.before.players
        me == ev.snap
    IN /\ (\E i \in 1..Len(read) : read[i].name = me.name)
            => Cardinality({i \in 1..Len(Players) : Players[i].name = me.name}) = 1
       /\ Entries(Reconcile(Players, me)) = Entries(Players)
       /\ me \in Entries(read)
            => Entries(Players) = Entries(read)

\* The second of two reconciliations in a row has run on a full list that
\* already held the unchanged candidate.
ReconciledTwice ==
  /\ ev.kind = "boardWritten"
  /\ tasks = EmptyBag
  /\ ev.snap \in Entries(ev.before.players)
  /\ Len(ev.before.players) = 5
  /\ Cardinality({i \in 1..Len(Players) : Players[i].name = ev.snap.name}) = 1

\* C13: when the list read, without the candidate's old entry, and the
\* candidate make more than 5 entries, the list written is 5 of them, no
\* dropped entry has more points than a kept one, and with 6 distinct
\* point values the entry dropped is the one with the fewest points.
TruncationKeepsTop ==
  ev.kind = "boardWritten" =>
    LET read == ev.before.players
        me == ev.snap
        pool == {e \in Entries(read) : e.name # me.name} \cup {me}
        kept == Entries(Players)
        dropped == pool \ kept
    IN Cardinality(pool) > 5 =>
         /\ Len(Players) = 5
         /\ Cardinality(kept) = 5
         /\ kept \subseteq pool
         /\ \A d \in dropped : \A k \in kept : d.points <= k.points
         /\ Cardinality({e.points : e \in pool}) = 6 =>
              \A d \in dropped : \A e \in pool : e.points >= d.points

\* Six entries with distinct points were reconciled and an entry other
\* than the candidate was dropped, the candidate landing in the middle.
LowestOfSixDropped ==
  /\ ev.kind = "boardWritten"
  /\ Len(ev.before.players) = 5
  /\ \A i \in 1..5 : ev.before.players[i].name # ev.snap.name
  /\ Cardinality({e.points : e \in Entries(ev.before.players) \cup {ev.snap}}) = 6
  /\ Players[3] = ev.snap
  /\ ev.before.players[5] \notin Entries(Players)

\* C14: the stored roster never holds more than 50 names or a name twice,
\* and no step removes a name from it.
RosterAppendOnly ==
  [][/\ Len(RosterNames') <= 50
     /\ \A i, j \in 1..Len(RosterNames') :
          i < j => RosterNames'[i] # RosterNames'[j]
     /\ \A i \in 1..Len(RosterNames) : Includes(RosterNames', RosterNames[i])]_vars

\* C15: the leaderboard write stores a list made only of the entries read
\* earlier and the candidate, so an entry another user stored between the
\* read and the write is missing, or replaced by that user's older entry,
\* after the write.
StaleBoardWrite ==
  [][ev'.kind = "boardWritten" =>
       /\ Entries(Players') \subseteq Entries(ev'.before.players) \cup {ev'.snap}
       /\ \A e \in Entries(Players) :
            (e.name # ev'.snap.name /\ e \notin Entries(ev'.before.players))
              => e \notin Entries(Players')]_vars

\* ann and bob have each completed once from an empty leaderboard, both
\* actions have finished, and the leaderboard holds only one of them.
LostUpdate ==
  /\ tasks = EmptyBag
  /\ calls = 2
  /\ users["ann"].points = 10
  /\ users["bob"].points = 10
  /\ ev.kind = "boardWritten"
  /\ ev.before.players = <<>>
  /\ Len(Players) = 1

\* C16: a completion hands to its leaderboard update the points it wrote to
\* the profile, and when that update reads and writes with no other
\* leaderboard write in between, the leaderboard right after the write
\* holds the user's entry with those points, or 5 entries none of which
\* has fewer points.
BoardSelfCorrects ==
  [][/\ ev'.kind = "completed" =>
          \E t \in BagToSet(tasks') :
            /\ t.pc = "getBoard"
            /\ t.me.name = ev'.name
            /\ t.me.points = users'[ev'.name].points
     /\ (ev'.kind = "boardWritten" /\ ev'.before.players = Players) =>
          \/ \E e \in Entries(Players') :
               e.name = ev'.name /\ e.points = ev'.snap.points
          \/ /\ Len(Players') = 5
             /\ \A e \in Entries(Players') : e.points >= ev'.snap.points]_vars

\* A user whose stored entry had fallen more than one completion behind
\* has completed again, and the leaderboard holds the points of the profile.
SelfCorrected ==
  /\ ev.kind = "boardWritten"
  /\ tasks = EmptyBag
  /\ \E r \in Entries(ev.before.players) :
       r.name = ev.name /\ r.points < ev.snap.points - 10
  /\ ev.snap \in Entries(Players)
  /\ users[ev.name].points = ev.snap.points

\* C17: the step of a completion that writes the profile leaves the
\* leaderboard alone and only then starts the leaderboard read; a store
\* failure in the leaderboard read or write changes neither the profile,
\* which keeps the update, nor the leaderboard.
ProfileWrittenFirst ==
  [][/\ ev'.kind = "completed" =>
          /\ leaderboard' = leaderboard
          /\ users'[ev'.name].points = ev'.snap.points + 10
          /\ users'[ev'.name].lastActiveDate = ev'.today
          /\ \E t \in BagToSet(tasks') :
               /\ t.pc = "getBoard" /\ t.c = ev'.c /\ t.players = <<>>
               /\ CopiesIn(t, tasks') = CopiesIn(t, tasks) + 1
     /\ ev'.kind \in {"boardRead", "boardWritten", "StoreUnavailable"} =>
          /\ users' = users
          /\ \E t \in InFlight : t.c = ev'.c /\ t.name = ev'.name
     /\ ev'.kind = "StoreUnavailable" =>
          /\ leaderboard' = leaderboard
          /\ users' = users]_vars

\* The leaderboard request of a completion has failed: the profile holds
\* the points of that completion and the leaderboard has no entry for it.
BoardFailedProfileKept ==
  /\ ev.kind = "StoreUnavailable"
  /\ users[ev.name].points = ev.snap.points
  /\ users[ev.name].lastActiveDate = Day0
  /\ \A e \in Entries(Players) : e.name # ev.name
  /\ tasks = EmptyBag

\* C18: every stored profile has points equal to xp.
PointsEqualXp ==
  \A n \in Names : users[n].exists => users[n].points = users[n].xp

\* A completion computed from an outdated snapshot has lowered the stored
\* points and xp of a profile, both to the same value.
StaleWriteKeptLockstep ==
  /\ ev.kind = "completed"
  /\ ev.before.points > users[ev.name].points
  /\ ev.before.xp - users[ev.name].xp = ev.before.points - users[ev.name].points
  /\ users[ev.name].points = users[ev.name].xp

\* C19: no step removes an existing profile or changes its credentialHash,
\* and the creating write of an enter leaves an existing profile, with its
\* points, xp, streak and habits, as it is.
CredentialHashImmutable ==
  [][\A n \in Names :
       users[n].exists =>
         /\ users'[n].exists
         /\ users'[n].codeHash = users[n].codeHash
         /\ ev'.kind = "created" => users'[n] = users[n]]_vars

\* C20: a habit stored in a profile stays in its habits list, with
\* lastDoneDate and totalCompletions not going back, through every step
\* other than a delete-habit for its id.
HabitsPersist ==
  [][\A n \in Names :
       users[n].exists =>
         \A i \in 1..Len(users[n].habits) :
           LET h == users[n].habits[i]
           IN (ev'.kind = "deleted" /\ ev'.name = n /\ ev'.id = h.id)
              \/ \E j \in 1..Len(users'[n].habits) :
                   LET g == users'[n].habits[j]
                   IN /\ g.id = h.id
                      /\ g.totalCompletions >= h.totalCompletions
                      /\ g.lastDoneDate >= h.lastDoneDate]_vars

====
